---- MODULE Spec2Model ----
(***************************************************************************)
(* Model of cli/docs/conf.py, the documentation configuration module.      *)
(*                                                                         *)
(* The module is nine top-level assignments of literals.  Loading it means *)
(* executing those statements, in order, in a module namespace; the        *)
(* documentation tool then reads names out of that namespace.              *)
(*                                                                         *)
(* Python values are modelled with their type: a str is a record           *)
(* [type |-> "str", val |-> <characters>] whose val is the sequence of its *)
(* characters, a list is [type |-> "list", val |-> <items>] whose items    *)
(* are values.  A namespace is a function from the names bound so far to   *)
(* their values.                                                           *)
(***************************************************************************)
EXTENDS Naturals, Sequences, FiniteSets, TLC

VARIABLES
    pc,          \* statements of conf.py executed so far; 10 once the load has returned
    ns,          \* the module namespace: name -> value, for the names bound so far
    build,       \* which build invocation (process) this is
    loads,       \* completed loads in this build invocation
    returned,    \* history: every namespace a completed load has returned, over all builds
    toolConfig   \* what the documentation tool has copied out of the namespace in this build

vars == <<pc, ns, build, loads, returned, toolConfig>>

\* Bounds of the exploration.
MaxBuilds == 2
MaxLoads == 2

\* Python value constructors.
Str(chars) == [type |-> "str", val |-> chars]
List(items) == [type |-> "list", val |-> items]

\* A namespace with nothing bound.
EmptyNamespace == [n \in {} |-> Str(<<>>)]

\* Python's name binding: `name = value` binds name, replacing an earlier binding.
Bind(d, name, value) == (name :> value) @@ d

----------------------------------------------------------------------------
(* The literals on the right-hand sides of conf.py, lines 5-19.  Each       *)
(* definition is preceded by the faulty variants used to show that the      *)
(* properties below depend on it.                                           *)

project_empty == Str(<<>>)
project == Str(<<"C","h","i","s","e","l","S","t","r","i","k","e">>)

\* A copyright line computed per build instead of the fixed literal.
copyright_dated ==
    Str(<<"2","0","2", IF build = 1 THEN "1" ELSE "2", ",",
          " ","C","h","i","s","e","l","S","t","r","i","k","e"," ","I","n","c",".">>)
copyright ==
    Str(<<"2","0","2","1",","," ","C","h","i","s","e","l","S","t","r","i","k","e",
          " ","I","n","c",".">>)

author_truncated == Str(<<"C","h","i","s","e","l","S","t","r","i","k","e">>)
author == Str(<<"C","h","i","s","e","l","S","t","r","i","k","e"," ","I","n","c",".">>)

extensions_extra ==
    List(<< Str(<<"m","y","s","t","_","p","a","r","s","e","r">>),
            Str(<<"s","p","h","i","n","x",".","e","x","t",".","t","o","d","o">>) >>)
extensions == List(<< Str(<<"m","y","s","t","_","p","a","r","s","e","r">>) >>)

templates_path == List(<< Str(<<"_","t","e","m","p","l","a","t","e","s">>) >>)

exclude_patterns_short ==
    List(<< Str(<<"_","b","u","i","l","d">>),
            Str(<<"T","h","u","m","b","s",".","d","b">>) >>)
exclude_patterns ==
    List(<< Str(<<"_","b","u","i","l","d">>),
            Str(<<"T","h","u","m","b","s",".","d","b">>),
            Str(<<".","D","S","_","S","t","o","r","e">>) >>)

\* A path list extended in place (`+=` on the existing binding) instead of assigned.
html_static_path_accumulated ==
    IF "html_static_path" \in DOMAIN ns
    THEN List(ns["html_static_path"].val \o << Str(<<"_","s","t","a","t","i","c">>) >>)
    ELSE List(<< Str(<<"_","s","t","a","t","i","c">>) >>)
html_static_path == List(<< Str(<<"_","s","t","a","t","i","c">>) >>)

html_theme == Str(<<"a","l","a","b","a","s","t","e","r">>)

source_suffix_swapped ==
    List(<< Str(<<".","m","d">>), Str(<<".","r","s","t">>) >>)
source_suffix_undotted ==
    List(<< Str(<<"r","s","t">>), Str(<<"m","d">>) >>)
source_suffix ==
    List(<< Str(<<".","r","s","t">>), Str(<<".","m","d">>) >>)

----------------------------------------------------------------------------
Init ==
    /\ pc = 0
    /\ ns = EmptyNamespace
    /\ build = 1
    /\ loads = 0
    /\ returned = {}
    /\ toolConfig = EmptyNamespace

\* One assignment statement: the at-th statement of the module binds name to value.
Assign(at, name, value) ==
    /\ pc = at
    /\ pc' = at + 1
    /\ ns' = Bind(ns, name, value)
    /\ UNCHANGED <<build, loads, returned, toolConfig>>

Assign_project == Assign(0, "project", project)
Assign_copyright == Assign(1, "copyright", copyright)
Assign_author == Assign(2, "author", author)
Assign_extensions == Assign(3, "extensions", extensions)
Assign_templates_path == Assign(4, "templates_path", templates_path)
Assign_exclude_patterns == Assign(5, "exclude_patterns", exclude_patterns)
Assign_html_theme == Assign(6, "html_theme", html_theme)
Assign_html_static_path == Assign(7, "html_static_path", html_static_path)
Assign_source_suffix == Assign(8, "source_suffix", source_suffix)

\* The end of the module is reached: the load returns the namespace.
LoadReturn ==
    /\ pc = 9
    /\ pc' = 10
    /\ loads' = loads + 1
    /\ returned' = returned \cup {ns}
    /\ UNCHANGED <<ns, build, toolConfig>>

\* The documentation tool copies one setting out of the loaded namespace.
Read(name) ==
    /\ pc = 10
    /\ name \in DOMAIN ns
    /\ toolConfig' = Bind(toolConfig, name, ns[name])
    /\ UNCHANGED <<pc, ns, build, loads, returned>>

\* The module is executed again in the same build invocation, in the same namespace.
Reload ==
    /\ pc = 10
    /\ loads < MaxLoads
    /\ pc' = 0
    /\ UNCHANGED <<ns, build, loads, returned, toolConfig>>

\* Another build invocation: a new process, a fresh namespace.
NewBuild ==
    /\ pc = 10
    /\ build < MaxBuilds
    /\ build' = build + 1
    /\ pc' = 0
    /\ ns' = EmptyNamespace
    /\ loads' = 0
    /\ toolConfig' = EmptyNamespace
    /\ UNCHANGED returned

Next ==
    \/ Assign_project
    \/ Assign_copyright
    \/ Assign_author
    \/ Assign_extensions
    \/ Assign_templates_path
    \/ Assign_exclude_patterns
    \/ Assign_html_theme
    \/ Assign_html_static_path
    \/ Assign_source_suffix
    \/ LoadReturn
    \/ \E name \in DOMAIN ns : Read(name)
    \/ Reload
    \/ NewBuild

Spec == Init /\ [][Next]_vars

----------------------------------------------------------------------------
\* The load has returned and nothing is executing.
Loaded == pc = 10

\* The nine setting names.
FieldNames ==
    {"project", "copyright", "author", "extensions", "templates_path",
     "exclude_patterns", "html_theme", "html_static_path", "source_suffix"}

NonEmptyStr(v) == v.type = "str" /\ Len(v.val) > 0
SeqOfNonEmptyStr(v) ==
    v.type = "list" /\ \A i \in 1..Len(v.val) : NonEmptyStr(v.val[i])

----------------------------------------------------------------------------
(* Properties.                                                              *)

\* C1: when the load has returned, the namespace binds exactly the nine
\* setting names, and project, copyright, author, html_theme, templates_path
\* and html_static_path hold the documented literal values.
C1_LoadReturnsLiterals ==
    Loaded =>
        /\ DOMAIN ns = FieldNames
        /\ Cardinality(DOMAIN ns) = 9
        /\ ns["project"] = Str(<<"C","h","i","s","e","l","S","t","r","i","k","e">>)
        /\ ns["copyright"] =
              Str(<<"2","0","2","1",","," ","C","h","i","s","e","l","S","t","r","i","k","e",
                    " ","I","n","c",".">>)
        /\ ns["author"] =
              Str(<<"C","h","i","s","e","l","S","t","r","i","k","e"," ","I","n","c",".">>)
        /\ ns["html_theme"] = Str(<<"a","l","a","b","a","s","t","e","r">>)
        /\ ns["templates_path"] = List(<< Str(<<"_","t","e","m","p","l","a","t","e","s">>) >>)
        /\ ns["html_static_path"] = List(<< Str(<<"_","s","t","a","t","i","c">>) >>)

\* The load has returned and the tool has copied out every one of the nine settings.
C1_Witness == Loaded /\ DOMAIN toolConfig = FieldNames

\* C2: in the loaded configuration source_suffix is a list of length 2 whose
\* first entry is ".rst" and whose second entry is ".md".
C2_SourceSuffixOrder ==
    Loaded =>
        /\ ns["source_suffix"].type = "list"
        /\ Len(ns["source_suffix"].val) = 2
        /\ ns["source_suffix"].val[1] = Str(<<".","r","s","t">>)
        /\ ns["source_suffix"].val[2] = Str(<<".","m","d">>)

\* Loaded, and the tool has copied out source_suffix and nothing else.
C2_Witness == Loaded /\ DOMAIN toolConfig = {"source_suffix"}

\* C3: in the loaded configuration exclude_patterns is a list of length 3
\* whose entries are exactly "_build", "Thumbs.db" and ".DS_Store".
C3_ExcludePatternsExact ==
    Loaded =>
        /\ ns["exclude_patterns"].type = "list"
        /\ Len(ns["exclude_patterns"].val) = 3
        /\ {ns["exclude_patterns"].val[i] : i \in 1..Len(ns["exclude_patterns"].val)} =
              { Str(<<"_","b","u","i","l","d">>),
                Str(<<"T","h","u","m","b","s",".","d","b">>),
                Str(<<".","D","S","_","S","t","o","r","e">>) }

\* Loaded, and the tool has copied out exclude_patterns and nothing else.
C3_Witness == Loaded /\ DOMAIN toolConfig = {"exclude_patterns"}

\* C4: in the loaded configuration extensions is the one-element list
\* ["myst_parser"].
C4_ExtensionsExact ==
    Loaded =>
        ns["extensions"] = List(<< Str(<<"m","y","s","t","_","p","a","r","s","e","r">>) >>)

\* Loaded, and the tool has copied out extensions and nothing else.
C4_Witness == Loaded /\ DOMAIN toolConfig = {"extensions"}

\* C5: once a load has completed in a build invocation, no step taken within
\* that build invocation (a read by the tool, or the module being executed
\* again) changes, adds or removes a binding of the namespace.
C5_ImmutableOnceLoaded ==
    [][(loads >= 1 /\ build' = build) => ns' = ns]_vars

\* A load has completed, the tool has read settings, and the module is in the
\* middle of being executed again.
C5_Witness == loads >= 1 /\ pc = 8 /\ DOMAIN toolConfig # {}

\* C8: the loaded configuration meets every constraint listed for validate():
\* project, copyright, author and html_theme are non-empty strings, and
\* extensions, templates_path, exclude_patterns, html_static_path and
\* source_suffix are lists all of whose entries are non-empty strings.
C8_LoadedConfigIsValid ==
    Loaded =>
        /\ \A n \in {"project", "copyright", "author", "html_theme"} :
              n \in DOMAIN ns /\ NonEmptyStr(ns[n])
        /\ \A n \in {"extensions", "templates_path", "exclude_patterns",
                     "html_static_path", "source_suffix"} :
              n \in DOMAIN ns /\ SeqOfNonEmptyStr(ns[n])

\* The first load of the first build has just returned; nothing has been read yet.
C8_Witness == Loaded /\ build = 1 /\ loads = 1 /\ DOMAIN toolConfig = {}

\* C9: every entry of source_suffix in the loaded configuration is a string
\* whose first character is "." and that has at least one further character.
C9_SourceSuffixDotted ==
    Loaded =>
        \A i \in 1..Len(ns["source_suffix"].val) :
            /\ ns["source_suffix"].val[i].type = "str"
            /\ Len(ns["source_suffix"].val[i].val) >= 2
            /\ ns["source_suffix"].val[i].val[1] = "."

\* Loaded with a non-empty source_suffix that the tool has copied out together
\* with extensions.
C9_Witness ==
    /\ Loaded
    /\ Len(ns["source_suffix"].val) > 0
    /\ DOMAIN toolConfig = {"source_suffix", "extensions"}

\* C10: every load that has returned, in this or an earlier build invocation
\* and whether it started from a fresh or an already populated namespace,
\* returned the same record; and a loaded namespace is always that one record.
C10_LoadDeterministic ==
    /\ \A r1, r2 \in returned : r1 = r2
    /\ Loaded => returned = {ns}

\* A second build invocation has completed a load, after a first one that
\* completed one too.
C10_Witness == Loaded /\ build >= 2 /\ loads >= 1 /\ returned # {}

====
